---- MODULE Spec2Model ----
(***************************************************************************)
(* Model of internal/group/group.go and internal/helpers/db_helpers.go of  *)
(* finance-manager-backend: the HTTP handlers CreateGroup, AddMember,      *)
(* GetBalances, GetUserGroups and GetGroup running concurrently against    *)
(* one PostgreSQL database.                                                *)
(*                                                                         *)
(* Every database round trip of a handler is one atomic step; the local    *)
(* computation that follows a reply (checks, the fold over the rows, the   *)
(* JSON response) belongs to the same step.  Statements outside a          *)
(* transaction see committed rows only; the rows a transaction wrote are   *)
(* kept in the handler's locals until Commit.                              *)
(*                                                                         *)
(* Amounts are decimal.Decimal (arbitrary precision, exact Add/Sub): they  *)
(* are modelled as integers.  UUIDs are opaque tokens: group ids are the   *)
(* naturals 1..MaxGroups handed out in order, users are strings.           *)
(***************************************************************************)
EXTENDS Integers, Sequences, FiniteSets, TLC

\* ---------------------------------------------------------------- bounds
MaxGroups == 1
MaxLedger == 2

\* Requests are served concurrently, one goroutine each.  The properties are
\* stated on the requests of the observed handler; the other handler runs the
\* same code at the same time and only its writes are seen.
Procs == {"p1", "p2"}
Observed == {"p1"}
Users == {"A", "B", "C"}
NoUser == "-"
\* The group identifiers requests name: those the groups table can hand
\* out, and one it never does.
GroupIds == 1..(MaxGroups + 1)
\* Amounts, in currency units: an expense's total, a share, a settlement
Totals == {100}
Amounts == {50, 100}
Transfers == {50}

\* The users table (not written by these handlers): one row per user.
UserEmail == [u \in Users |-> IF u = "A" THEN "a@x.io" ELSE IF u = "B" THEN "b@x.io" ELSE "c@x.io"]
UnknownEmail == "z@x.io"
MalformedEmail == "not-an-email"
Emails == {UserEmail[u] : u \in Users} \cup {UnknownEmail}
\* validate:"required,email" of AddMemberRequest
ValidEmail(e) == e \in Emails
\* validate:"required,min=1" of CreateGroupRequest
ValidName(n) == n # ""

VARIABLES
    groups,          \* table groups: committed rows [id, name, created_by]
    group_members,   \* table group_members: number of committed rows per (group_id, user_id)
    expenses,        \* table expenses: sequence of rows [id, group_id, paid_by, total_amount]
    expense_splits,  \* table expense_splits: sequence of rows [expense_id, user_id, amount]
    settlements,     \* table settlements: sequence of rows [group_id, from_user, to_user, amount]
    nextGroupId,     \* next identifier the groups table hands out
    fetchErrors,     \* whether the connection can fail while a statement's rows are fetched
    pc,              \* per request handler: where it stands
    loc,             \* per request handler: its local variables
    resp             \* per request handler: the responses written with c.JSON, in order

vars == <<groups, group_members, expenses, expense_splits, settlements, nextGroupId, fetchErrors, pc, loc, resp>>
db == <<groups, group_members, expenses, expense_splits, settlements, nextGroupId, fetchErrors>>
ledger == <<expenses, expense_splits, settlements>>

\* ---------------------------------------------------------------- helpers

NoGroup == [id |-> 0, name |-> "", created_by |-> NoUser]
NoMap == [u \in {} |-> 0]

\* No earlier GetBalances result to compare with.
NoPrior == [groupID |-> 0, balances |-> {}, ledger |-> 0]

\* A handler's locals; ghost fields (requester, wrote, faulted, startRows,
\* startLedger, prior) record facts about the call, and about
\* the observed handler's previous call, for the properties only.
Idle ==
    [op |-> "none", userID |-> NoUser, groupID |-> 0, email |-> "", name |-> "",
     g |-> NoGroup, txGroups |-> {}, txMembers |-> {},
     members |-> NoMap, memberList |-> {}, expenseList |-> <<>>, groupList |-> <<>>,
     balances |-> {}, isMember |-> FALSE,
     requester |-> NoUser, wrote |-> 0, faulted |-> FALSE, startRows |-> 0, startLedger |-> 0,
     prior |-> NoPrior]

\* The handler returns having written `out`.  An observed handler keeps its
\* locals and its responses until its next request; the other handlers' are
\* dropped with the goroutine.
Return(p, l, out) ==
    IF p \in Observed
    THEN /\ loc' = [loc EXCEPT ![p] = l]
         /\ resp' = [resp EXCEPT ![p] = out]
         /\ pc' = [pc EXCEPT ![p] = "done"]
    ELSE /\ loc' = [loc EXCEPT ![p] = Idle]
         /\ resp' = [resp EXCEPT ![p] = <<>>]
         /\ pc' = [pc EXCEPT ![p] = "idle"]

\* c.JSON(status, gin.H{"error": msg}) followed by return: the handler ends
\* with locals l, having written one more response after `prior`.
Fail(p, l, prior, status, msg) ==
    Return(p, l, Append(prior, [status |-> status, error |-> msg]))

\* c.JSON(status, value) as the handler's last statement
Reply(p, l, prior, status) ==
    Return(p, l, Append(prior, [status |-> status, error |-> ""]))

\* What is kept of a handler's locals: the ghost fields only where observed.
Kept(p, l) ==
    IF p \in Observed THEN l
    ELSE [l EXCEPT !.requester = NoUser, !.wrote = 0, !.faulted = FALSE,
                   !.startRows = 0, !.startLedger = 0, !.prior = NoPrior]

\* The handler goes on to its next database call.
Goto(p, l, prior, next) ==
    /\ loc' = [loc EXCEPT ![p] = Kept(p, l)]
    /\ resp' = [resp EXCEPT ![p] = prior]
    /\ pc' = [pc EXCEPT ![p] = next]

\* The goroutine is free to take a request.
Ready(p) == pc[p] = "idle"

\* The result of p's call as the next call's `prior`, when the call was a
\* GetBalances that succeeded, its reads unfailed, on records that did not
\* change while it ran.
AsPrior(p) ==
    IF /\ loc[p].op = "GetBalances" /\ resp[p] # <<>> /\ resp[p][Len(resp[p])].status = 200
       /\ ~loc[p].faulted
       /\ loc[p].startLedger = Len(expenses) + Len(settlements)
       /\ DOMAIN loc[p].members = {u \in Users : group_members[<<loc[p].groupID, u>>] > 0}
    THEN [groupID |-> loc[p].groupID, balances |-> loc[p].balances, ledger |-> loc[p].startLedger]
    ELSE NoPrior

\* The observed handler's goroutine ends; its locals and responses go with it.
Finish(p) ==
    /\ pc[p] = "done"
    /\ pc' = [pc EXCEPT ![p] = "idle"]
    /\ loc' = [loc EXCEPT ![p] = Idle]
    /\ resp' = [resp EXCEPT ![p] = <<>>]
    /\ UNCHANGED db

\* SELECT EXISTS(SELECT 1 FROM group_members WHERE group_id = $1 AND user_id = $2)
IsGroupMember(groupID, userID) ==
    /\ groupID \in GroupIds
    /\ userID \in Users
    /\ group_members[<<groupID, userID>>] > 0

\* SELECT id FROM users WHERE email = $1: the matching ids
UsersByEmail(email) == {u \in Users : UserEmail[u] = email}

\* GetUserByEmail of db_helpers.go: any Scan error, no row or a failed query
\* alike, is answered (uuid.Nil, false, nil).  `ok` is whether the query ran.
GetUserByEmail(email, ok) ==
    IF ok /\ UsersByEmail(email) # {}
    THEN [userID |-> CHOOSE u \in UsersByEmail(email) : TRUE, exists |-> TRUE, err |-> FALSE]
    ELSE [userID |-> NoUser, exists |-> FALSE, err |-> FALSE]

\* group_members without the unique pair
UniqueViolation_None(groupID, userID) == FALSE

\* group_members(group_id, user_id) is a unique pair: an INSERT of a pair
\* that has a committed row is refused by the database.
UniqueViolation(groupID, userID) == group_members[<<groupID, userID>>] > 0

\* InsertMemberRow as a replacement of the group's rows: DELETE FROM
\* group_members WHERE group_id = $1, then the INSERT
InsertMemberRow_Replace(rows, groupID, userID) ==
    [k \in DOMAIN rows |->
        IF k[1] = groupID THEN (IF k[2] = userID THEN 1 ELSE 0) ELSE rows[k]]

\* INSERT INTO group_members (group_id, user_id) VALUES ($1, $2), committed
InsertMemberRow(rows, groupID, userID) ==
    [rows EXCEPT ![<<groupID, userID>>] = @ + 1]

\* ------------------------------------------------------------ CreateGroup

\* Request bodies: malformed JSON, an empty name, a name.
CreateGroupBodies ==
    {[json |-> FALSE, name |-> ""], [json |-> TRUE, name |-> ""], [json |-> TRUE, name |-> "trip"]}

\* Identifiers still free once every open transaction has taken its own.
IdsLeft ==
    MaxGroups + 1 - nextGroupId - Cardinality({q \in Procs : pc[q] = "cg_insert_group"})

\* tx.Rollback (deferred): the rows the transaction wrote are discarded.
Rollback(l) == [l EXCEPT !.txGroups = {}, !.txMembers = {}]

\* group.go 36-61: the principal, the body, its validation, db.Pool.Begin
CreateGroup_Begin(p) ==
    /\ Ready(p)
    /\ UNCHANGED db
    /\ \E caller \in Users \cup {NoUser} :
         LET l == [Idle EXCEPT !.op = "CreateGroup", !.userID = caller, !.requester = caller] IN
         IF caller = NoUser THEN Fail(p, l, <<>>, 401, "unauthorized")
         ELSE \E body \in CreateGroupBodies :
             IF ~body.json THEN Fail(p, l, <<>>, 400, "bind error")
             ELSE IF ~ValidName(body.name) THEN Fail(p, l, <<>>, 400, "validation error")
             ELSE \E ok \in BOOLEAN :
                 IF ~ok THEN
                     Fail(p, [l EXCEPT !.faulted = TRUE], <<>>, 500, "failed to start transaction")
                 ELSE
                     /\ IdsLeft > 0
                     /\ Goto(p, [l EXCEPT !.name = body.name], <<>>, "cg_insert_group")

\* CreateGroup_InsertGroup with db.Pool.QueryRow in place of tx.QueryRow:
\* the group row is committed by its own statement.
CreateGroup_InsertGroup_Pool(p) ==
    /\ pc[p] = "cg_insert_group"
    /\ \E ok \in BOOLEAN :
         IF ok THEN
             LET g == [id |-> nextGroupId, name |-> loc[p].name, created_by |-> loc[p].userID] IN
             /\ nextGroupId' = nextGroupId + 1
             /\ groups' = groups \cup {g}
             /\ Goto(p, [loc[p] EXCEPT !.g = g], resp[p], "cg_insert_member")
         ELSE
             /\ UNCHANGED <<nextGroupId, groups>>
             /\ Fail(p, Rollback([loc[p] EXCEPT !.faulted = TRUE]), resp[p], 500, "failed to create group")
    /\ UNCHANGED <<group_members, ledger, fetchErrors>>

\* group.go 63-70: INSERT INTO groups ... RETURNING, inside the transaction
CreateGroup_InsertGroup(p) ==
    /\ pc[p] = "cg_insert_group"
    /\ \E ok \in BOOLEAN :
         IF ok THEN
             LET g == [id |-> nextGroupId, name |-> loc[p].name, created_by |-> loc[p].userID] IN
             /\ nextGroupId' = nextGroupId + 1
             /\ Goto(p, [loc[p] EXCEPT !.g = g, !.txGroups = {g}], resp[p], "cg_insert_member")
         ELSE
             /\ UNCHANGED nextGroupId
             /\ Fail(p, Rollback([loc[p] EXCEPT !.faulted = TRUE]), resp[p], 500, "failed to create group")
    /\ UNCHANGED <<groups, group_members, ledger, fetchErrors>>

\* CreateGroup_InsertMember with defer tx.Commit in place of defer
\* tx.Rollback: the failed insert's return commits the group row.
CreateGroup_InsertMember_DeferCommit(p) ==
    /\ pc[p] = "cg_insert_member"
    /\ UNCHANGED <<ledger, fetchErrors, nextGroupId>>
    /\ \E ok \in BOOLEAN :
         IF ok /\ ~UniqueViolation(loc[p].g.id, loc[p].userID) THEN
             /\ UNCHANGED <<groups, group_members>>
             /\ Goto(p, [loc[p] EXCEPT !.txMembers = {<<loc[p].g.id, loc[p].userID>>}], resp[p], "cg_commit")
         ELSE
             /\ groups' = groups \cup loc[p].txGroups
             /\ UNCHANGED group_members
             /\ Fail(p, Rollback([loc[p] EXCEPT !.faulted = TRUE]), resp[p], 500, "failed to add creator as member")

\* group.go 72-79: INSERT INTO group_members, inside the transaction
CreateGroup_InsertMember(p) ==
    /\ pc[p] = "cg_insert_member"
    /\ \E ok \in BOOLEAN :
         IF ok /\ ~UniqueViolation(loc[p].g.id, loc[p].userID) THEN
             Goto(p, [loc[p] EXCEPT !.txMembers = {<<loc[p].g.id, loc[p].userID>>}], resp[p], "cg_commit")
         ELSE
             Fail(p, Rollback([loc[p] EXCEPT !.faulted = TRUE]), resp[p], 500, "failed to add creator as member")
    /\ UNCHANGED db

\* The committed group_members table after the transaction's rows are applied.
CommitMembers(rows, tx) ==
    [k \in DOMAIN rows |-> IF k \in tx THEN rows[k] + 1 ELSE rows[k]]

\* group.go 81-87: tx.Commit makes both rows visible at once, then 201
CreateGroup_Commit(p) ==
    /\ pc[p] = "cg_commit"
    /\ \E ok \in BOOLEAN :
         IF ok THEN
             /\ groups' = groups \cup loc[p].txGroups
             /\ group_members' = CommitMembers(group_members, loc[p].txMembers)
             /\ Reply(p, Rollback([loc[p] EXCEPT !.wrote = Cardinality(loc[p].txMembers)]), resp[p], 201)
         ELSE
             /\ UNCHANGED <<groups, group_members>>
             /\ Fail(p, Rollback([loc[p] EXCEPT !.faulted = TRUE]), resp[p], 500, "failed to commit transaction")
    /\ UNCHANGED <<ledger, fetchErrors, nextGroupId>>

\* -------------------------------------------------------------- AddMember

\* Request bodies: malformed JSON, a malformed address, an address.
AddMemberBodies ==
    {[json |-> FALSE, email |-> ""], [json |-> TRUE, email |-> MalformedEmail]}
        \cup {[json |-> TRUE, email |-> e] : e \in Emails}

\* Rows of group_members for the group and the user the address names.
RowsFor(groupID, email) ==
    IF UsersByEmail(email) = {} THEN 0
    ELSE group_members[<<groupID, CHOOSE u \in UsersByEmail(email) : TRUE>>]

\* AddMember_Begin with the body bound and validated before the
\* requester's membership is checked
AddMember_Begin_ValidateFirst(p) ==
    /\ Ready(p)
    /\ UNCHANGED db
    /\ \E caller \in Users \cup {NoUser} :
         LET l0 == [Idle EXCEPT !.op = "AddMember", !.userID = caller, !.requester = caller] IN
         IF caller = NoUser THEN Fail(p, l0, <<>>, 401, "unauthorized")
         ELSE \E idOk \in BOOLEAN :
             IF ~idOk THEN Fail(p, l0, <<>>, 400, "invalid group id")
             ELSE \E gid \in GroupIds, ok \in BOOLEAN, body \in AddMemberBodies :
                 LET l1 == [l0 EXCEPT !.groupID = gid, !.faulted = ~ok,
                                      !.isMember = ok /\ IsGroupMember(gid, caller)]
                     l2 == [l1 EXCEPT !.email = body.email,
                                      !.startRows = RowsFor(gid, body.email)] IN
                 IF ~body.json THEN Fail(p, l1, <<>>, 400, "bind error")
                 ELSE IF ~ValidEmail(body.email) THEN Fail(p, l2, <<>>, 400, "validation error")
                 ELSE IF ~ok \/ ~l1.isMember THEN Fail(p, l1, <<>>, 403, "not a member of the group")
                 ELSE Goto(p, l2, <<>>, "am_lookup")

\* AddMember_Begin without the return at group.go 109: a requester who is
\* not a member goes on to add the target
AddMember_Begin_Ungated(p) ==
    /\ Ready(p)
    /\ UNCHANGED db
    /\ \E caller \in Users, gid \in GroupIds, body \in AddMemberBodies :
         LET l2 == [Idle EXCEPT !.op = "AddMember", !.userID = caller, !.requester = caller,
                                !.groupID = gid, !.isMember = IsGroupMember(gid, caller),
                                !.email = body.email, !.startRows = RowsFor(gid, body.email)] IN
         /\ body.json
         /\ ValidEmail(body.email)
         /\ Goto(p, l2, <<>>, "am_lookup")

\* group.go 89-122: the principal, the group id, the requester's membership
\* (SELECT EXISTS ...; a failed query counts as "not a member"), then the
\* body and its validation
AddMember_Begin(p) ==
    /\ Ready(p)
    /\ UNCHANGED db
    /\ \E caller \in Users \cup {NoUser} :
         LET l0 == [Idle EXCEPT !.op = "AddMember", !.userID = caller, !.requester = caller] IN
         IF caller = NoUser THEN Fail(p, l0, <<>>, 401, "unauthorized")
         ELSE \E idOk \in BOOLEAN :
             IF ~idOk THEN Fail(p, l0, <<>>, 400, "invalid group id")
             ELSE \E gid \in GroupIds, ok \in BOOLEAN :
                 LET l1 == [l0 EXCEPT !.groupID = gid, !.faulted = ~ok,
                                      !.isMember = ok /\ IsGroupMember(gid, caller)] IN
                 IF ~ok \/ ~l1.isMember THEN Fail(p, l1, <<>>, 403, "not a member of the group")
                 ELSE \E body \in AddMemberBodies :
                     LET l2 == [l1 EXCEPT !.email = body.email,
                                          !.startRows = RowsFor(gid, body.email)] IN
                     IF ~body.json THEN Fail(p, l1, <<>>, 400, "bind error")
                     ELSE IF ~ValidEmail(body.email) THEN Fail(p, l2, <<>>, 400, "validation error")
                     ELSE Goto(p, l2, <<>>, "am_lookup")

\* group.go 124-133: helpers.GetUserByEmail; its result overwrites userID
AddMember_Lookup(p) ==
    /\ pc[p] = "am_lookup"
    /\ UNCHANGED db
    /\ \E ok \in BOOLEAN :
         LET r == GetUserByEmail(loc[p].email, ok)
             l == [loc[p] EXCEPT !.userID = r.userID, !.faulted = ~ok]
         IN
         IF r.err THEN Fail(p, l, resp[p], 500, "database error")
         ELSE IF ~r.exists THEN Fail(p, l, resp[p], 404, "user not found with this email")
         ELSE Goto(p, l, resp[p], "am_check")

\* group.go 135-144: helpers.IsGroupMember for the target
AddMember_Check(p) ==
    /\ pc[p] = "am_check"
    /\ UNCHANGED db
    /\ \E ok \in BOOLEAN :
         IF ~ok THEN Fail(p, [loc[p] EXCEPT !.faulted = TRUE], resp[p], 500, "database error")
         ELSE IF IsGroupMember(loc[p].groupID, loc[p].userID)
         THEN Fail(p, loc[p], resp[p], 400, "user already in group")
         ELSE Goto(p, loc[p], resp[p], "am_insert")

\* AddMember_Insert with the test of Exec's error inverted (err == nil)
AddMember_Insert_ErrInverted(p) ==
    /\ pc[p] = "am_insert"
    /\ UNCHANGED <<groups, ledger, fetchErrors, nextGroupId>>
    /\ \E ok \in BOOLEAN :
         IF ok /\ ~UniqueViolation(loc[p].groupID, loc[p].userID) THEN
             /\ group_members' = InsertMemberRow(group_members, loc[p].groupID, loc[p].userID)
             /\ Fail(p, [loc[p] EXCEPT !.wrote = 1], resp[p], 500, "failed to add member")
         ELSE
             /\ UNCHANGED group_members
             /\ Reply(p, [loc[p] EXCEPT !.faulted = ~ok], resp[p], 200)

\* group.go 146-154: INSERT INTO group_members outside any transaction
AddMember_Insert(p) ==
    /\ pc[p] = "am_insert"
    /\ UNCHANGED <<groups, ledger, fetchErrors, nextGroupId>>
    /\ \E ok \in BOOLEAN :
         IF ok /\ ~UniqueViolation(loc[p].groupID, loc[p].userID) THEN
             /\ group_members' = InsertMemberRow(group_members, loc[p].groupID, loc[p].userID)
             /\ Reply(p, [loc[p] EXCEPT !.wrote = 1], resp[p], 200)
         ELSE
             /\ UNCHANGED group_members
             /\ Fail(p, [loc[p] EXCEPT !.faulted = ~ok], resp[p], 500, "failed to add member")

\* ------------------------------------------------------------ GetBalances

\* SELECT user_id FROM group_members WHERE group_id = $1
SelectMembers(groupID) == {u \in Users : group_members[<<groupID, u>>] > 0}

\* SELECT paid_by, total_amount FROM expenses WHERE group_id = $1
SelectExpenses(groupID) == SelectSeq(expenses, LAMBDA e : e.group_id = groupID)

\* SELECT es.user_id, es.amount FROM expense_splits es
\*   JOIN expenses e ON es.expense_id = e.id WHERE e.group_id = $1
SelectSplits(groupID) ==
    SelectSeq(expense_splits,
              LAMBDA es : \E i \in 1..Len(expenses) :
                              expenses[i].id = es.expense_id /\ expenses[i].group_id = groupID)

\* SELECT from_user, to_user, amount FROM settlements WHERE group_id = $1
SelectSettlements(groupID) == SelectSeq(settlements, LAMBDA t : t.group_id = groupID)

\* group.go 187-195: members[uid] = decimal.Zero for every row
ZeroBalances(uids) == [u \in uids |-> 0]

\* CreditPayer without the ok test: members[paidBy] = members[paidBy].Add(total)
\* gives a payer who is not in the map an entry of their own
CreditPayer_Unguarded(members, e) ==
    [u \in DOMAIN members \cup {e.paid_by} |->
        (IF u \in DOMAIN members THEN members[u] ELSE 0)
          + (IF u = e.paid_by THEN e.total_amount ELSE 0)]

\* group.go 213-215: if bal, ok := members[paidBy]; ok { members[paidBy] = bal.Add(total) }
CreditPayer(members, e) ==
    IF e.paid_by \in DOMAIN members
    THEN [members EXCEPT ![e.paid_by] = @ + e.total_amount]
    ELSE members

\* DebitSplit with bal.Add in place of bal.Sub
DebitSplit_Add(members, es) ==
    IF es.user_id \in DOMAIN members
    THEN [members EXCEPT ![es.user_id] = @ + es.amount]
    ELSE members

\* group.go 233-235: if bal, ok := members[uid]; ok { members[uid] = bal.Sub(amt) }
DebitSplit(members, es) ==
    IF es.user_id \in DOMAIN members
    THEN [members EXCEPT ![es.user_id] = @ - es.amount]
    ELSE members

\* ApplySettlement without the receiver's half
ApplySettlement_SenderOnly(members, t) ==
    IF t.from_user \in DOMAIN members
    THEN [members EXCEPT ![t.from_user] = @ - t.amount]
    ELSE members

\* ApplySettlement under one test for both sides: a settlement with a
\* side that is not in the map is skipped whole
ApplySettlement_BothOrNone(members, t) ==
    IF t.from_user \in DOMAIN members /\ t.to_user \in DOMAIN members
    THEN [members EXCEPT ![t.from_user] = @ - t.amount, ![t.to_user] = @ + t.amount]
    ELSE members

\* group.go 254-259: the sender is debited, then the receiver credited
ApplySettlement(members, t) ==
    LET m1 == IF t.from_user \in DOMAIN members
              THEN [members EXCEPT ![t.from_user] = @ - t.amount]
              ELSE members
    IN IF t.to_user \in DOMAIN m1
       THEN [m1 EXCEPT ![t.to_user] = @ + t.amount]
       ELSE m1

\* group.go 206-216: for expRows.Next() { ... }
RECURSIVE FoldExpenses(_, _)
FoldExpenses(members, rows) ==
    IF rows = <<>> THEN members
    ELSE FoldExpenses(CreditPayer(members, Head(rows)), Tail(rows))

\* group.go 226-236: for splitRows.Next() { ... }
RECURSIVE FoldSplits(_, _)
FoldSplits(members, rows) ==
    IF rows = <<>> THEN members
    ELSE FoldSplits(DebitSplit(members, Head(rows)), Tail(rows))

\* group.go 247-260: for settRows.Next() { ... }
RECURSIVE FoldSettlements(_, _)
FoldSettlements(members, rows) ==
    IF rows = <<>> THEN members
    ELSE FoldSettlements(ApplySettlement(members, Head(rows)), Tail(rows))

\* group.go 262-266: the map as a list of Balance values, in no fixed order
ToBalances(members) == {[user_id |-> u, amount |-> members[u]] : u \in DOMAIN members}

\* Number of ledger events recorded so far (the ledger tables only grow).
LedgerSize == Len(expenses) + Len(settlements)

\* What a query can come to: its rows; an error from Query; an error from
\* Scan; an error while the rows are fetched, on which rows.Next() returns
\* false and the loop ends as it does after the last row.  The handlers
\* never call rows.Err(), so the last is not told from the end of the rows.
Outcomes == {"ok", "query", "scan"} \cup (IF fetchErrors THEN {"next"} ELSE {})

\* The rows a loop has seen when rows.Next() returns false on an error.
Prefixes(rows) == {SubSeq(rows, 1, k) : k \in 0..Len(rows)}

\* The previous result, while it is of the same group and the group's
\* records are as they were when it was computed.
StillPrior(prior, groupID) ==
    IF /\ prior.groupID = groupID
       /\ prior.ledger = LedgerSize
       /\ {b.user_id : b \in prior.balances} = SelectMembers(groupID)
    THEN prior ELSE NoPrior

\* group.go 157-176: the principal, the group id, helpers.IsGroupMember
\* (a failed query counts as "not a member").  The observed handler takes
\* the request when free, or right after a GetBalances whose result the
\* properties compare this call's with.
GetBalances_Begin(p) ==
    /\ Ready(p) \/ AsPrior(p) # NoPrior
    /\ UNCHANGED db
    /\ \E caller \in Users \cup {NoUser} :
         LET l0 == [Idle EXCEPT !.op = "GetBalances", !.userID = caller, !.requester = caller] IN
         IF caller = NoUser THEN Fail(p, l0, <<>>, 401, "unauthorized")
         ELSE \E idOk \in BOOLEAN :
             IF ~idOk THEN Fail(p, l0, <<>>, 400, "invalid group id")
             ELSE \E gid \in GroupIds, ok \in BOOLEAN :
                 LET l1 == [l0 EXCEPT !.groupID = gid, !.faulted = ~ok,
                                      !.isMember = ok /\ IsGroupMember(gid, caller),
                                      !.startLedger = LedgerSize,
                                      !.prior = StillPrior(AsPrior(p), gid)] IN
                 IF ~ok \/ ~l1.isMember THEN Fail(p, l1, <<>>, 403, "not a member of the group")
                 ELSE Goto(p, l1, <<>>, "gb_members")

\* group.go 178-195: the members, each at zero
GetBalances_Members(p) ==
    /\ pc[p] = "gb_members"
    /\ UNCHANGED db
    /\ \E o \in Outcomes :
         LET cur == [loc[p] EXCEPT !.prior = StillPrior(@, loc[p].groupID)]
             l == [cur EXCEPT !.faulted = TRUE, !.prior = NoPrior] IN
         IF o = "query" THEN Fail(p, l, resp[p], 500, "failed to get members")
         ELSE IF o = "scan" THEN Fail(p, l, resp[p], 500, "failed to scan member")
         ELSE IF o = "next" THEN
             \E uids \in SUBSET SelectMembers(cur.groupID) :
                 Goto(p, [l EXCEPT !.members = ZeroBalances(uids)], resp[p], "gb_expenses")
         ELSE Goto(p, [cur EXCEPT !.members = ZeroBalances(SelectMembers(cur.groupID))],
                   resp[p], "gb_expenses")

\* group.go 197-216: every expense credits its payer
GetBalances_Expenses(p) ==
    /\ pc[p] = "gb_expenses"
    /\ UNCHANGED db
    /\ \E o \in Outcomes :
         LET cur == [loc[p] EXCEPT !.prior = StillPrior(@, loc[p].groupID)]
             l == [cur EXCEPT !.faulted = TRUE, !.prior = NoPrior] IN
         IF o = "query" THEN Fail(p, l, resp[p], 500, "failed to get expenses")
         ELSE IF o = "scan" THEN Fail(p, l, resp[p], 500, "failed to scan expense")
         ELSE IF o = "next" THEN
             \E rows \in Prefixes(SelectExpenses(cur.groupID)) :
                 Goto(p, [l EXCEPT !.members = FoldExpenses(@, rows)], resp[p], "gb_splits")
         ELSE Goto(p, [cur EXCEPT !.members = FoldExpenses(@, SelectExpenses(cur.groupID))],
                   resp[p], "gb_splits")

\* group.go 218-236: every split debits its user
GetBalances_Splits(p) ==
    /\ pc[p] = "gb_splits"
    /\ UNCHANGED db
    /\ \E o \in Outcomes :
         LET cur == [loc[p] EXCEPT !.prior = StillPrior(@, loc[p].groupID)]
             l == [cur EXCEPT !.faulted = TRUE, !.prior = NoPrior] IN
         IF o = "query" THEN Fail(p, l, resp[p], 500, "failed to get expense splits")
         ELSE IF o = "scan" THEN Fail(p, l, resp[p], 500, "failed to scan split")
         ELSE IF o = "next" THEN
             \E rows \in Prefixes(SelectSplits(cur.groupID)) :
                 Goto(p, [l EXCEPT !.members = FoldSplits(@, rows)], resp[p], "gb_settlements")
         ELSE Goto(p, [cur EXCEPT !.members = FoldSplits(@, SelectSplits(cur.groupID))],
                   resp[p], "gb_settlements")

\* group.go 238-268: every settlement moves its amount, then 200 with the list
\* A variant whose settlements query leaves out the caller's own payments, so
\* that the answer depends on who asks.
GetBalances_Settlements_SkipCaller(p) ==
    /\ pc[p] = "gb_settlements"
    /\ UNCHANGED db
    /\ LET cur == [loc[p] EXCEPT !.prior = StillPrior(@, loc[p].groupID)]
           rows == SelectSeq(SelectSettlements(cur.groupID),
                             LAMBDA t : t.from_user # cur.requester)
           m == FoldSettlements(cur.members, rows)
       IN Reply(p, [cur EXCEPT !.members = m, !.balances = ToBalances(m)], resp[p], 200)

GetBalances_Settlements(p) ==
    /\ pc[p] = "gb_settlements"
    /\ UNCHANGED db
    /\ \E o \in Outcomes :
         LET cur == [loc[p] EXCEPT !.prior = StillPrior(@, loc[p].groupID)]
             l == [cur EXCEPT !.faulted = TRUE, !.prior = NoPrior]
             m == FoldSettlements(cur.members, SelectSettlements(cur.groupID))
         IN
         IF o = "query" THEN Fail(p, l, resp[p], 500, "failed to get settlements")
         ELSE IF o = "scan" THEN Fail(p, l, resp[p], 500, "failed to scan settlement")
         ELSE IF o = "next" THEN
             \E rows \in Prefixes(SelectSettlements(cur.groupID)) :
                 LET t == FoldSettlements(cur.members, rows) IN
                 Reply(p, [l EXCEPT !.members = t, !.balances = ToBalances(t)], resp[p], 200)
         ELSE Reply(p, [cur EXCEPT !.members = m, !.balances = ToBalances(m)], resp[p], 200)

\* group.go 187-260: the fold of GetBalances over the rows its four reads return
Compute(uids, expRows, splitRows, settRows) ==
    FoldSettlements(FoldSplits(FoldExpenses(ZeroBalances(uids), expRows), splitRows), settRows)

\* The four reads and the fold of GetBalances against one state of the tables.
ComputeBalances(groupID) ==
    Compute(SelectMembers(groupID), SelectExpenses(groupID),
            SelectSplits(groupID), SelectSettlements(groupID))

\* --------------------------------------------------------------- GetGroup

\* SELECT id, name, created_by, created_at FROM groups WHERE id = $1
SelectGroup(groupID) == {g \in groups : g.id = groupID}

RECURSIVE Reverse(_)
Reverse(rows) == IF rows = <<>> THEN <<>> ELSE Append(Reverse(Tail(rows)), Head(rows))

\* SELECT ... FROM expenses WHERE group_id = $1 ORDER BY created_at DESC
\* (rows are appended in the order of their creation)
SelectExpensesNewestFirst(groupID) == Reverse(SelectExpenses(groupID))

\* group.go 394-401: is the caller among the members read
CallerAmong(memberList, userID) == userID \in memberList

\* group.go 326-348: the principal, the group id, the group row (any Scan
\* error, no row or a failed query alike, is answered 404)
GetGroup_Begin(p) ==
    /\ Ready(p)
    /\ UNCHANGED db
    /\ \E caller \in Users \cup {NoUser} :
         LET l0 == [Idle EXCEPT !.op = "GetGroup", !.userID = caller, !.requester = caller] IN
         IF caller = NoUser THEN Fail(p, l0, <<>>, 401, "unauthorized")
         ELSE \E idOk \in BOOLEAN :
             IF ~idOk THEN Fail(p, l0, <<>>, 400, "invalid group id")
             ELSE \E gid \in GroupIds, ok \in BOOLEAN :
                 LET l1 == [l0 EXCEPT !.groupID = gid, !.faulted = ~ok] IN
                 IF ~ok \/ SelectGroup(gid) = {}
                 THEN Fail(p, l1, <<>>, 404, "group not found")
                 ELSE Goto(p, [l1 EXCEPT !.g = CHOOSE g \in SelectGroup(gid) : TRUE],
                           <<>>, "gg_members")

\* group.go 350-370: SELECT ... FROM users u JOIN group_members gm ... WHERE gm.group_id = $1
GetGroup_Members(p) ==
    /\ pc[p] = "gg_members"
    /\ UNCHANGED db
    /\ \E o \in Outcomes :
         LET l == [loc[p] EXCEPT !.faulted = TRUE] IN
         IF o = "query" THEN Fail(p, l, resp[p], 500, "failed to get members")
         ELSE IF o = "scan" THEN Fail(p, l, resp[p], 500, "failed to scan member")
         ELSE IF o = "next" THEN
             \E uids \in SUBSET SelectMembers(loc[p].groupID) :
                 Goto(p, [l EXCEPT !.memberList = uids], resp[p], "gg_expenses")
         ELSE Goto(p, [loc[p] EXCEPT !.memberList = SelectMembers(loc[p].groupID)],
                   resp[p], "gg_expenses")

\* group.go 372-407: the expenses, is_member, then 200 with the details
GetGroup_Expenses(p) ==
    /\ pc[p] = "gg_expenses"
    /\ UNCHANGED db
    /\ \E o \in Outcomes :
         LET l == [loc[p] EXCEPT !.faulted = TRUE] IN
         IF o = "query" THEN Fail(p, l, resp[p], 500, "failed to get expenses")
         ELSE IF o = "scan" THEN Fail(p, l, resp[p], 500, "failed to scan expense")
         ELSE IF o = "next" THEN
             \E rows \in Prefixes(SelectExpensesNewestFirst(loc[p].groupID)) :
                 Reply(p, [l EXCEPT !.expenseList = rows,
                                    !.isMember = CallerAmong(loc[p].memberList, loc[p].userID)],
                       resp[p], 200)
         ELSE Reply(p, [loc[p] EXCEPT !.expenseList = SelectExpensesNewestFirst(loc[p].groupID),
                                      !.isMember = CallerAmong(loc[p].memberList, loc[p].userID)],
                    resp[p], 200)

\* ---------------------------------------------------------- GetUserGroups

\* ORDER BY g.created_at DESC (identifiers are handed out in creation order)
RECURSIVE NewestFirst(_)
NewestFirst(gs) ==
    IF gs = {} THEN <<>>
    ELSE LET g == CHOOSE x \in gs : \A y \in gs : y.id <= x.id
         IN <<g>> \o NewestFirst(gs \ {g})

\* SELECT g.* FROM groups g JOIN group_members gm ON g.id = gm.group_id WHERE gm.user_id = $1
SelectUserGroups(userID) == {g \in groups : group_members[<<g.id, userID>>] > 0}

\* group.go 271-301
GetUserGroups(p) ==
    /\ Ready(p)
    /\ UNCHANGED db
    /\ \E caller \in Users \cup {NoUser} :
         LET l0 == [Idle EXCEPT !.op = "GetUserGroups", !.userID = caller, !.requester = caller]
             l == [l0 EXCEPT !.faulted = TRUE]
         IN
         IF caller = NoUser THEN Fail(p, l0, <<>>, 401, "unauthorized")
         ELSE \E o \in Outcomes :
         IF o = "query" THEN Fail(p, l, <<>>, 500, "failed to get groups")
         ELSE IF o = "scan" THEN Fail(p, l, <<>>, 500, "failed to scan group")
         ELSE IF o = "next" THEN
             \E rows \in Prefixes(NewestFirst(SelectUserGroups(caller))) :
                 Reply(p, [l EXCEPT !.groupList = rows], <<>>, 200)
         ELSE Reply(p, [l0 EXCEPT !.groupList = NewestFirst(SelectUserGroups(caller))], <<>>, 200)

\* ------------------------------------------------------------- the ledger
\* Expenses, their splits and settlements are written by other packages of
\* the service.  An expense is recorded together with its splits, which sum
\* to its total; the payer, the split users and both ends of a settlement
\* are members of the group when the rows are written.

UserOrder == <<"A", "B", "C">>

RECURSIVE SumOver(_, _)
SumOver(S, f) ==
    IF S = {} THEN 0
    ELSE LET x == CHOOSE y \in S : TRUE IN f[x] + SumOver(S \ {x}, f)

\* The ways to split `total` among some of `uids`, each share an amount.
Shares(uids, total) ==
    UNION {{f \in [S -> Amounts] : SumOver(S, f) = total} : S \in (SUBSET uids) \ {{}}}

SplitRows(expenseID, shares) ==
    LET us == SelectSeq(UserOrder, LAMBDA u : u \in DOMAIN shares)
    IN [i \in 1..Len(us) |-> [expense_id |-> expenseID, user_id |-> us[i], amount |-> shares[us[i]]]]

RecordExpense ==
    /\ LedgerSize < MaxLedger
    /\ \E g \in groups, total \in Totals :
         \E payer \in SelectMembers(g.id), shares \in Shares(SelectMembers(g.id), total) :
             LET id == Len(expenses) + 1 IN
             /\ expenses' = Append(expenses, [id |-> id, group_id |-> g.id,
                                              paid_by |-> payer, total_amount |-> total])
             /\ expense_splits' = expense_splits \o SplitRows(id, shares)
    /\ UNCHANGED <<groups, group_members, settlements, nextGroupId, fetchErrors, pc, loc, resp>>

RecordSettlement ==
    /\ LedgerSize < MaxLedger
    /\ \E g \in groups, amount \in Transfers :
         \E from \in SelectMembers(g.id), to \in SelectMembers(g.id) :
             /\ from # to
             /\ settlements' = Append(settlements, [group_id |-> g.id, from_user |-> from,
                                                    to_user |-> to, amount |-> amount])
    /\ UNCHANGED <<groups, group_members, expenses, expense_splits, nextGroupId, fetchErrors, pc, loc, resp>>

\* ---------------------------------------------------------- specification

Init ==
    /\ groups = {}
    /\ group_members = [k \in GroupIds \X Users |-> 0]
    /\ expenses = <<>>
    /\ expense_splits = <<>>
    /\ settlements = <<>>
    /\ nextGroupId = 1
    /\ fetchErrors = TRUE
    /\ pc = [p \in Procs |-> "idle"]
    /\ loc = [p \in Procs |-> Idle]
    /\ resp = [p \in Procs |-> <<>>]

\* The handlers that write: POST /groups, POST /groups/:id/members
Writer(p) ==
    \/ CreateGroup_Begin(p)
    \/ CreateGroup_InsertGroup(p)
    \/ CreateGroup_InsertMember(p)
    \/ CreateGroup_Commit(p)
    \/ AddMember_Begin(p)
    \/ AddMember_Lookup(p)
    \/ AddMember_Check(p)
    \/ AddMember_Insert(p)

\* The handlers that only read
Reader(p) ==
    \/ GetBalances_Begin(p)
    \/ GetBalances_Members(p)
    \/ GetBalances_Expenses(p)
    \/ GetBalances_Splits(p)
    \/ GetBalances_Settlements(p)
    \/ GetGroup_Begin(p)
    \/ GetGroup_Members(p)
    \/ GetGroup_Expenses(p)
    \/ GetUserGroups(p)

\* Groups and memberships: every handler, on a database whose ledger is
\* empty, over a connection that can fail at any point.
Next ==
    \/ \E p \in Procs : Writer(p)
    \/ \E p \in Observed : Reader(p)
    \/ \E p \in Observed : Finish(p)

Spec == Init /\ [][Next]_vars

\* The ledger: GetBalances of the observed handler while expenses and
\* settlements are recorded, on a database that holds one group created by
\* A, with members A and B, or A, B and C, over a connection that delivers
\* every row of a statement it has begun to answer (a statement can still
\* fail as a whole, or in Scan).
InitLedger ==
    /\ groups = {[id |-> 1, name |-> "trip", created_by |-> "A"]}
    /\ \E ms \in {{"A", "B"}, {"A", "B", "C"}} :
         group_members = [k \in GroupIds \X Users |-> IF k[1] = 1 /\ k[2] \in ms THEN 1 ELSE 0]
    /\ expenses = <<>>
    /\ expense_splits = <<>>
    /\ settlements = <<>>
    /\ nextGroupId = 2
    /\ fetchErrors = FALSE
    /\ pc = [p \in Procs |-> "idle"]
    /\ loc = [p \in Procs |-> Idle]
    /\ resp = [p \in Procs |-> <<>>]

Balances(p) ==
    \/ GetBalances_Begin(p)
    \/ GetBalances_Members(p)
    \/ GetBalances_Expenses(p)
    \/ GetBalances_Splits(p)
    \/ GetBalances_Settlements(p)

NextLedger ==
    \/ RecordExpense
    \/ RecordSettlement
    \/ \E p \in Observed : Balances(p)
    \/ \E p \in Observed : Finish(p)

SpecLedger == InitLedger /\ [][NextLedger]_vars

\* The fold: GetBalances of the observed handler on a ledger that is given
\* and does not change.  The ledger tables are written by handlers outside
\* group.go and name users, not memberships: the group has members A and B,
\* or A, B and C, at most one expense with its splits and at most one
\* settlement, each naming any users, members or not.
InitFold ==
    /\ groups = {[id |-> 1, name |-> "trip", created_by |-> "A"]}
    /\ \E ms \in {{"A", "B"}, {"A", "B", "C"}} :
         group_members = [k \in GroupIds \X Users |-> IF k[1] = 1 /\ k[2] \in ms THEN 1 ELSE 0]
    /\ \/ expenses = <<>> /\ expense_splits = <<>>
       \/ \E payer \in Users, total \in Totals : \E shares \in Shares(Users, total) :
            /\ expenses = <<[id |-> 1, group_id |-> 1, paid_by |-> payer, total_amount |-> total]>>
            /\ expense_splits = SplitRows(1, shares)
    /\ \/ settlements = <<>>
       \/ \E from \in Users, amount \in Transfers : \E to \in Users \ {from} :
            settlements = <<[group_id |-> 1, from_user |-> from, to_user |-> to, amount |-> amount]>>
    /\ nextGroupId = 2
    /\ fetchErrors = FALSE
    /\ pc = [p \in Procs |-> "idle"]
    /\ loc = [p \in Procs |-> Idle]
    /\ resp = [p \in Procs |-> <<>>]

NextFold ==
    \/ \E p \in Observed : Balances(p)
    \/ \E p \in Observed : Finish(p)

SpecFold == InitFold /\ [][NextFold]_vars

\* ------------------------------------------------------------- properties

\* The observed handler p has returned from `op`.
Done(p, op) == pc[p] = "done" /\ loc[p].op = op

\* The last response it wrote.
Last(p) == resp[p][Len(resp[p])]

\* The request layer's failure kinds (400 is ValidationFailed but for the
\* duplicate membership, which is the Conflict).
Kind(r) ==
    CASE r.status \in {200, 201} -> "OK"
      [] r.status = 401 -> "Unauthorized"
      [] r.status = 403 -> "Forbidden"
      [] r.status = 404 -> "NotFound"
      [] r.status = 400 /\ r.error = "user already in group" -> "Conflict"
      [] r.status = 400 -> "ValidationFailed"
      [] OTHER -> "Internal"

\* No expense or settlement was recorded since p's GetBalances began.
Quiescent(p) == loc[p].startLedger = LedgerSize

\* The group's members are those p's GetBalances read.
SameMembers(p) == DOMAIN loc[p].members = SelectMembers(loc[p].groupID)

\* No database call of p's request met a failure.
Unfailed(p) == ~loc[p].faulted

\* p's GetBalances succeeded, its reads unfailed, on records that did not
\* change during the call.
Settled(p) ==
    Done(p, "GetBalances") /\ Last(p).status = 200 /\ Unfailed(p) /\ Quiescent(p)

\* The list of Balance values as a mapping, and its sum.
AmountOf(bs) == [u \in {b.user_id : b \in bs} |-> (CHOOSE b \in bs : b.user_id = u).amount]
SumBalances(bs) == SumOver(DOMAIN AmountOf(bs), AmountOf(bs))

\* Sum of the field values picked by f over the rows of `rows` at indexes I.
SumRows(rows, I, f(_)) == SumOver(I, [i \in I |-> f(rows[i])])

ExpenseIds(groupID) == {expenses[i].id : i \in {j \in 1..Len(expenses) : expenses[j].group_id = groupID}}

\* Every expense of the group has splits that sum to its total.
SplitsMatchTotals(groupID) ==
    \A i \in 1..Len(expenses) :
        expenses[i].group_id = groupID =>
            SumRows(expense_splits,
                    {j \in 1..Len(expense_splits) : expense_splits[j].expense_id = expenses[i].id},
                    LAMBDA r : r.amount) = expenses[i].total_amount

Paid(groupID, m) ==
    SumRows(expenses,
            {i \in 1..Len(expenses) : expenses[i].group_id = groupID /\ expenses[i].paid_by = m},
            LAMBDA r : r.total_amount)

Owed(groupID, m) ==
    SumRows(expense_splits,
            {j \in 1..Len(expense_splits) :
                expense_splits[j].user_id = m /\ expense_splits[j].expense_id \in ExpenseIds(groupID)},
            LAMBDA r : r.amount)

Sent(groupID, m) ==
    SumRows(settlements,
            {i \in 1..Len(settlements) : settlements[i].group_id = groupID /\ settlements[i].from_user = m},
            LAMBDA r : r.amount)

Received(groupID, m) ==
    SumRows(settlements,
            {i \in 1..Len(settlements) : settlements[i].group_id = groupID /\ settlements[i].to_user = m},
            LAMBDA r : r.amount)

\* C1: a GetBalances call that succeeds, its reads unfailed, on a group
\* whose records did not change during the call, that has no settlements and
\* whose expenses each have splits summing to the total, returns balances
\* that sum to zero.
C1_ZeroSum ==
    \A p \in Observed :
        ( /\ Settled(p)
          /\ SelectSettlements(loc[p].groupID) = <<>>
          /\ SplitsMatchTotals(loc[p].groupID) )
        => SumBalances(loc[p].balances) = 0

C1_Witness ==
    \E p \in Observed :
        /\ Settled(p)
        /\ SelectSettlements(loc[p].groupID) = <<>>
        /\ Len(SelectExpenses(loc[p].groupID)) = 2
        /\ \E b \in loc[p].balances : b.amount = 150
        /\ \E b \in loc[p].balances : b.amount = -100

\* The group's records are those of the scenario: members A and B, one
\* expense of 100 paid by A and split 50/50, then `setts` as settlements.
Scenario(groupID, setts) ==
    /\ SelectMembers(groupID) = {"A", "B"}
    /\ Len(SelectExpenses(groupID)) = 1
    /\ SelectExpenses(groupID)[1].paid_by = "A"
    /\ SelectExpenses(groupID)[1].total_amount = 100
    /\ {[user_id |-> r.user_id, amount |-> r.amount] :
            r \in {SelectSplits(groupID)[j] : j \in 1..Len(SelectSplits(groupID))}}
         = {[user_id |-> "A", amount |-> 50], [user_id |-> "B", amount |-> 50]}
    /\ Len(SelectSplits(groupID)) = 2
    /\ [i \in 1..Len(SelectSettlements(groupID)) |->
            <<SelectSettlements(groupID)[i].from_user, SelectSettlements(groupID)[i].to_user,
              SelectSettlements(groupID)[i].amount>>] = setts

\* Each member's returned balance is paid - owed - sent + received.
NetOfRecords(p) ==
    /\ DOMAIN AmountOf(loc[p].balances) = SelectMembers(loc[p].groupID)
    /\ \A m \in SelectMembers(loc[p].groupID) :
           AmountOf(loc[p].balances)[m]
             = Paid(loc[p].groupID, m) - Owed(loc[p].groupID, m)
                 - Sent(loc[p].groupID, m) + Received(loc[p].groupID, m)

\* C2: a GetBalances call that succeeds, its reads unfailed, on unchanged
\* records returns for
\* every member paid - owed - sent + received; with members A and B and A
\* paying 100 split 50/50 it returns A = +50 and B = -50, and after a
\* settlement of 50 from B to A it returns A = 0 and B = 0.
C2_BalanceFormula ==
    \A p \in Observed :
        Settled(p) =>
            /\ NetOfRecords(p)
            /\ Scenario(loc[p].groupID, <<>>) =>
                   loc[p].balances = {[user_id |-> "A", amount |-> 50], [user_id |-> "B", amount |-> -50]}
            /\ Scenario(loc[p].groupID, << <<"B", "A", 50>> >>) =>
                   loc[p].balances = {[user_id |-> "A", amount |-> 0], [user_id |-> "B", amount |-> 0]}

\* What the code returns in C2's cases: the general sum and the first half
\* of the scenario as claimed; after the settlement of 50 from B to A,
\* A = +100 and B = -100.
C2_AsCoded ==
    \A p \in Observed :
        Settled(p) =>
            /\ NetOfRecords(p)
            /\ Scenario(loc[p].groupID, <<>>) =>
                   loc[p].balances = {[user_id |-> "A", amount |-> 50], [user_id |-> "B", amount |-> -50]}
            /\ Scenario(loc[p].groupID, << <<"B", "A", 50>> >>) =>
                   loc[p].balances = {[user_id |-> "A", amount |-> 100], [user_id |-> "B", amount |-> -100]}

\* The last settlement recorded, when this step records one.
Recorded == settlements'[Len(settlements')]

\* C3: recording one settlement of amount A from X to Y lowers X's computed
\* balance by A, raises Y's by A, leaves every other member's balance and
\* the sum of the group's balances unchanged; a GetBalances call whose reads
\* did not fail, on unchanged records, returns the computed balances.  (`after` is the fold
\* over the rows the four reads return once the settlement is recorded.)
C3_SettlementNeutral ==
    /\ [](\A p \in Observed :
              Settled(p) =>
                  loc[p].members = ComputeBalances(loc[p].groupID))
    /\ [][ (Len(settlements') = Len(settlements) + 1) =>
            \A t \in {Recorded} :
            \A before \in {ComputeBalances(t.group_id)} :
            \A uids \in {SelectMembers(t.group_id)'} :
            \A expRows \in {SelectExpenses(t.group_id)'} :
            \A splitRows \in {SelectSplits(t.group_id)'} :
            \A settRows \in {SelectSettlements(t.group_id)'} :
            \A after \in {Compute(uids, expRows, splitRows, settRows)} :
               /\ settRows = Append(SelectSettlements(t.group_id), t)
               /\ DOMAIN after = DOMAIN before
               /\ after[t.from_user] = before[t.from_user] - t.amount
               /\ after[t.to_user] = before[t.to_user] + t.amount
               /\ \A m \in DOMAIN before \ {t.from_user, t.to_user} : after[m] = before[m]
               /\ SumOver(DOMAIN after, after) = SumOver(DOMAIN before, before)
      ]_vars

C3_Witness ==
    \E p \in Observed :
        /\ Settled(p)
        /\ Len(SelectSettlements(loc[p].groupID)) = 1
        /\ Len(SelectExpenses(loc[p].groupID)) = 1
        /\ Cardinality(loc[p].balances) = 3
        /\ \E b \in loc[p].balances :
               b.user_id = SelectSettlements(loc[p].groupID)[1].from_user /\ b.amount < 0

\* C4: a CreateGroup call that fails (at Begin, at either insert or at
\* Commit) has written exactly one response, a failure, and leaves no group
\* row and no membership row of the group it was creating.
C4_CreateAtomic ==
    \A p \in Observed :
        (Done(p, "CreateGroup") /\ Last(p).status # 201) =>
            /\ Len(resp[p]) = 1
            /\ Kind(Last(p)) # "OK"
            /\ \A g \in groups : g.id # loc[p].g.id
            /\ loc[p].g.id \in GroupIds => \A u \in Users : group_members[<<loc[p].g.id, u>>] = 0

C4_Witness ==
    \E p \in Observed :
        /\ Done(p, "CreateGroup")
        /\ Last(p).error = "failed to add creator as member"
        /\ loc[p].g.id = 1
        /\ groups = {}

\* C5: every committed group has its creator among its members, and a
\* GetGroup call that read the group row goes on to read the creator among
\* the members, when the read of the members did not fail.
C5_CreatorIsMember ==
    /\ \A g \in groups : IsGroupMember(g.id, g.created_by)
    /\ \A p \in Observed :
           (((Done(p, "GetGroup") /\ Last(p).status = 200) \/ pc[p] = "gg_expenses")
                /\ Unfailed(p)) =>
               loc[p].g.created_by \in loc[p].memberList

C5_Witness ==
    \E p \in Observed :
        /\ Done(p, "GetGroup")
        /\ Last(p).status = 200
        /\ Unfailed(p)
        /\ loc[p].g \in groups
        /\ loc[p].g.created_by \in loc[p].memberList

\* The observed AddMember call got as far as looking the target up: it was
\* authenticated, named a group, passed the requester check and validation.
ReachedLookup(p) ==
    /\ Done(p, "AddMember")
    /\ Kind(Last(p)) \notin {"Unauthorized", "Forbidden", "ValidationFailed"}

\* C6: an AddMember call for a target that was not a member when the call
\* began and that meets no persistence failure either succeeds or reports
\* Conflict (another call for the same pair having succeeded meanwhile), and
\* exactly one membership row for the pair exists afterward.
C6_DuplicateAdd ==
    \A p \in Observed :
        (ReachedLookup(p) /\ UsersByEmail(loc[p].email) # {}
            /\ loc[p].startRows = 0 /\ ~loc[p].faulted) =>
            /\ Kind(Last(p)) \in {"OK", "Conflict"}
            /\ RowsFor(loc[p].groupID, loc[p].email) = 1

\* p takes the step that starts an AddMember call which names a group.
AddMemberBegins(p) ==
    pc[p] = "idle" /\ loc'[p].op = "AddMember" /\ loc'[p].groupID \in GroupIds

\* C7: AddMember answers Forbidden when the requester is not a member,
\* whatever the body; with a member requester and a well-formed body it
\* answers NotFound when the address names no user; with a known target it
\* answers Conflict when the target is already a member; and it inserts a
\* row only after all three checks passed, in that order.
C7_CheckOrder ==
    [][\A p \in Observed :
        /\ (AddMemberBegins(p) /\ ~IsGroupMember(loc'[p].groupID, loc'[p].requester)) =>
               (pc'[p] = "done" /\ Kind(Last(p)') = "Forbidden")
        /\ (AddMemberBegins(p) /\ IsGroupMember(loc'[p].groupID, loc'[p].requester)
                /\ ~loc'[p].faulted) =>
               \/ pc'[p] = "am_lookup" /\ ValidEmail(loc'[p].email)
               \/ pc'[p] = "done" /\ Kind(Last(p)') = "ValidationFailed"
        /\ (pc[p] = "am_lookup" /\ pc'[p] # "am_lookup" /\ UsersByEmail(loc[p].email) = {}) =>
               (pc'[p] = "done" /\ Kind(Last(p)') = "NotFound")
        /\ (pc[p] = "am_lookup" /\ pc'[p] # "am_lookup" /\ UsersByEmail(loc[p].email) # {}
                /\ ~loc'[p].faulted) =>
               (pc'[p] = "am_check" /\ loc'[p].userID \in UsersByEmail(loc[p].email))
        /\ (pc[p] = "am_check" /\ pc'[p] # "am_check" /\ ~loc'[p].faulted) =>
               IF IsGroupMember(loc[p].groupID, loc[p].userID)
               THEN pc'[p] = "done" /\ Kind(Last(p)') = "Conflict"
               ELSE pc'[p] = "am_insert"
        /\ (loc[p].op = "AddMember" /\ pc[p] # "done" /\ group_members' # group_members
                /\ loc'[p].wrote > loc[p].wrote) =>
               /\ pc[p] = "am_insert"
               /\ IsGroupMember(loc[p].groupID, loc[p].requester)
               /\ loc[p].userID \in UsersByEmail(loc[p].email)
               /\ ~IsGroupMember(loc[p].groupID, loc[p].userID)
               /\ group_members' = InsertMemberRow(group_members, loc[p].groupID, loc[p].userID)
      ]_vars

C7_Witness ==
    \E p \in Observed :
        /\ Done(p, "AddMember")
        /\ Kind(Last(p)) = "Conflict"
        /\ IsGroupMember(loc[p].groupID, loc[p].requester)
        /\ loc[p].requester # loc[p].userID

\* C8: the step that ends an AddMember call in a failure leaves the
\* membership relation unchanged, and the call wrote no row before it.
C8_FailureWritesNothing ==
    [][\A p \in Observed :
        (pc[p] # "done" /\ pc'[p] = "done" /\ loc'[p].op = "AddMember"
            /\ Kind(Last(p)') # "OK") =>
            (group_members' = group_members /\ loc'[p].wrote = 0)
      ]_vars

C8_Witness ==
    \E p \in Observed :
        /\ Done(p, "AddMember")
        /\ Kind(Last(p)) = "NotFound"
        /\ loc[p].email = UnknownEmail
        /\ \E k \in DOMAIN group_members : group_members[k] > 0

\* C9: the membership relation holds at most one row for each (group, user).
C9_MembershipIsSet ==
    \A k \in DOMAIN group_members : group_members[k] <= 1

C9_Witness ==
    \E p \in Observed :
        /\ Done(p, "AddMember")
        /\ Last(p).error = "failed to add member"
        /\ ~loc[p].faulted
        /\ group_members[<<loc[p].groupID, loc[p].userID>>] = 1

\* The observed call named an existing group of which its caller is no member.
NonMemberCall(p, op) ==
    /\ Done(p, op)
    /\ SelectGroup(loc[p].groupID) # {}
    /\ loc[p].requester \in Users
    /\ ~IsGroupMember(loc[p].groupID, loc[p].requester)

\* C10: GetBalances and GetGroup answer a caller who is not a
\* member of the group with Forbidden and with nothing about the group.
C10_AuthorizationGate ==
    \A p \in Observed :
        /\ NonMemberCall(p, "GetBalances") =>
               (Kind(Last(p)) = "Forbidden" /\ loc[p].balances = {} /\ loc[p].members = NoMap)
        /\ NonMemberCall(p, "GetGroup") =>
               (Kind(Last(p)) = "Forbidden" /\ loc[p].g = NoGroup
                    /\ loc[p].memberList = {} /\ loc[p].expenseList = <<>>)

\* What the code does in C10's cases: GetBalances answers a caller who is
\* not a member with Forbidden before it reads anything; GetGroup has no
\* such check and returns the details of an existing group to any
\* authenticated caller, with is_member telling whether the caller is among
\* the members it read.
C10_AsCoded ==
    \A p \in Observed :
        /\ NonMemberCall(p, "GetBalances") =>
               (Kind(Last(p)) = "Forbidden" /\ loc[p].balances = {} /\ loc[p].members = NoMap)
        /\ pc[p] \in {"gb_members", "gb_expenses", "gb_splits", "gb_settlements"} =>
               IsGroupMember(loc[p].groupID, loc[p].requester)
        /\ (Done(p, "GetGroup") /\ Last(p).status = 200) =>
               /\ loc[p].g \in groups
               /\ loc[p].isMember = (loc[p].requester \in loc[p].memberList)

\* C11: a GetBalances call by an authenticated user that names a group
\* identifier with no group row, and meets no persistence failure, answers
\* NotFound.
C11_MissingGroupNotFound ==
    \A p \in Observed :
        (Done(p, "GetBalances") /\ loc[p].requester \in Users /\ loc[p].groupID \in GroupIds
            /\ SelectGroup(loc[p].groupID) = {} /\ ~loc[p].faulted) =>
            Kind(Last(p)) = "NotFound"

\* What the code does in C11's case: the membership check finds no row and
\* the call answers Forbidden, having read nothing else.
C11_AsCoded ==
    \A p \in Observed :
        (Done(p, "GetBalances") /\ loc[p].requester \in Users /\ loc[p].groupID \in GroupIds
            /\ SelectGroup(loc[p].groupID) = {} /\ ~loc[p].faulted) =>
            (Kind(Last(p)) = "Forbidden" /\ loc[p].balances = {})

\* C12: a GetBalances call in which a read of the members, expenses, splits
\* or settlements failed, at the query or anywhere in its rows, answers
\* Internal and returns no balance mapping.
C12_NoPartialBalances ==
    \A p \in Observed :
        (Done(p, "GetBalances") /\ loc[p].isMember /\ loc[p].faulted) =>
            (Kind(Last(p)) = "Internal" /\ loc[p].balances = {})

\* What the code does in C12's cases: an error from Query or Scan ends the
\* call with Internal and no mapping; an error that ends rows.Next() is not
\* seen, and the call answers 200 with the balances of the rows it got.
C12_AsCoded ==
    \A p \in Observed :
        Done(p, "GetBalances") =>
            /\ Kind(Last(p)) # "OK" => loc[p].balances = {}
            /\ (loc[p].isMember /\ loc[p].faulted /\ Kind(Last(p)) # "Internal") =>
                   (Last(p).status = 200 /\ loc[p].balances = ToBalances(loc[p].members)
                        /\ DOMAIN loc[p].members \subseteq SelectMembers(loc[p].groupID))

\* C13: an AddMember call that met a persistence failure (in the requester
\* check, the lookup by email, the target check or the insert), and a
\* GetBalances call whose requester check met one, answer Internal.
C13_FailuresAreInternal ==
    \A p \in Observed :
        /\ (Done(p, "AddMember") /\ loc[p].faulted) => Kind(Last(p)) = "Internal"
        /\ (Done(p, "GetBalances") /\ loc[p].faulted /\ ~loc[p].isMember) =>
               Kind(Last(p)) = "Internal"

\* What the code does in C13's cases: a failed requester check answers
\* Forbidden, a failed lookup by email answers NotFound, a failed target
\* check or insert answers Internal.
C13_AsCoded ==
    \A p \in Observed :
        /\ (Done(p, "AddMember") /\ loc[p].faulted) =>
               Kind(Last(p)) = (IF ~loc[p].isMember THEN "Forbidden"
                                ELSE IF loc[p].userID = NoUser THEN "NotFound"
                                ELSE "Internal")
        /\ (Done(p, "GetBalances") /\ loc[p].faulted /\ ~loc[p].isMember) =>
               Kind(Last(p)) = "Forbidden"

\* C14: a GetBalances call that succeeds, its reads unfailed, returns
\* balances that sum to zero also when an expense with its splits (summing
\* to its total) or a settlement is recorded while the call runs.
C14_SnapshotZeroSum ==
    \A p \in Observed :
        (Done(p, "GetBalances") /\ Last(p).status = 200 /\ Unfailed(p)
            /\ SplitsMatchTotals(loc[p].groupID)) =>
            SumBalances(loc[p].balances) = 0

NoRecords(groupID, m) ==
    /\ \A i \in 1..Len(SelectExpenses(groupID)) : SelectExpenses(groupID)[i].paid_by # m
    /\ \A j \in 1..Len(SelectSplits(groupID)) : SelectSplits(groupID)[j].user_id # m
    /\ \A i \in 1..Len(SelectSettlements(groupID)) :
           SelectSettlements(groupID)[i].from_user # m /\ SelectSettlements(groupID)[i].to_user # m

\* p's GetBalances answered 200 and none of its reads failed.
Answered(p) == Done(p, "GetBalances") /\ Last(p).status = 200 /\ Unfailed(p)

\* C16: the users in the result of a successful GetBalances call are exactly
\* the members of the group, each in one entry; a member whom no expense,
\* split or settlement names has balance zero; a user who is not a member
\* has no entry, whatever records name them.
C16_ExactlyTheMembers ==
    \A p \in Observed :
        Answered(p) =>
            /\ {b.user_id : b \in loc[p].balances} = SelectMembers(loc[p].groupID)
            /\ Cardinality(loc[p].balances) = Cardinality(SelectMembers(loc[p].groupID))
            /\ \A b \in loc[p].balances : NoRecords(loc[p].groupID, b.user_id) => b.amount = 0

C16_Witness ==
    \E p \in Observed :
        /\ Answered(p)
        /\ SelectMembers(loc[p].groupID) = {"A", "B"}
        /\ ~NoRecords(loc[p].groupID, "C")
        /\ Len(SelectExpenses(loc[p].groupID)) = 1
        /\ SelectExpenses(loc[p].groupID)[1].paid_by = "C"
        /\ NoRecords(loc[p].groupID, "B")
        /\ [user_id |-> "B", amount |-> 0] \in loc[p].balances
        /\ \E b \in loc[p].balances : b.amount # 0

\* C17: in a successful GetBalances call each member's balance is moved by
\* exactly the adjustments that name that member: every expense they paid
\* is credited, every split of theirs debited, every settlement they sent
\* debited and every settlement they received credited, whether or not the
\* other users the record names are members; adjustments that name a
\* non-member move no balance and the call still answers 200.
C17_MembershipFilter ==
    \A p \in Observed :
        Answered(p) =>
            \A b \in loc[p].balances :
                /\ b.user_id \in SelectMembers(loc[p].groupID)
                /\ b.amount = Paid(loc[p].groupID, b.user_id) - Owed(loc[p].groupID, b.user_id)
                                - Sent(loc[p].groupID, b.user_id) + Received(loc[p].groupID, b.user_id)

C17_Witness ==
    \E p \in Observed :
        /\ Answered(p)
        /\ SelectMembers(loc[p].groupID) = {"A", "B"}
        /\ Len(SelectSettlements(loc[p].groupID)) = 1
        /\ SelectSettlements(loc[p].groupID)[1].from_user = "C"
        /\ SelectSettlements(loc[p].groupID)[1].to_user = "A"
        /\ Len(SelectExpenses(loc[p].groupID)) = 1
        /\ SelectExpenses(loc[p].groupID)[1].paid_by = "B"
        /\ Owed(loc[p].groupID, "C") = 50
        /\ Owed(loc[p].groupID, "B") = 50
        /\ loc[p].balances = {[user_id |-> "A", amount |-> 50], [user_id |-> "B", amount |-> 50]}

\* C18: a user becomes a member of a group only in the step that commits the
\* CreateGroup transaction of that group, as its creator, or in the INSERT of
\* an AddMember call for that group and that user whose requester was found
\* to be a member, and is one.
C18_WaysIntoAGroup ==
    [][\/ group_members' = group_members
       \/ \A g \in GroupIds, u \in Users :
            (group_members[<<g, u>>] = 0 /\ group_members'[<<g, u>>] > 0) =>
                \/ /\ g \notin {r.id : r \in groups}
                   /\ \E r \in groups' : r.id = g /\ r.created_by = u
                   /\ \E p \in Procs : /\ pc[p] = "cg_commit" /\ pc'[p] # "cg_commit"
                                         /\ \E t \in loc[p].txGroups : t.id = g /\ t.created_by = u
                \/ /\ g \in {r.id : r \in groups}
                   /\ \E p \in Procs :
                          /\ pc[p] = "am_insert" /\ pc'[p] # "am_insert"
                          /\ loc[p].groupID = g /\ loc[p].userID = u
                          /\ loc[p].isMember
                          /\ p \in Observed => IsGroupMember(g, loc[p].requester)
      ]_vars

\* A user who was added by AddMember has in turn added another user.
C18_Witness ==
    \E p \in Observed, r \in groups :
        /\ Done(p, "AddMember") /\ Last(p).status = 200
        /\ loc[p].groupID = r.id
        /\ loc[p].requester # r.created_by
        /\ loc[p].wrote = 1
        /\ IsGroupMember(r.id, loc[p].requester)
        /\ IsGroupMember(r.id, loc[p].userID)
        /\ loc[p].userID # r.created_by

\* The operations that only read.
ReadOps == {"GetBalances", "GetGroup", "GetUserGroups"}

\* Handler p takes the step, as part of operation op.
StepOf(p, op) ==
    /\ <<pc[p], loc[p], resp[p]>> # <<pc'[p], loc'[p], resp'[p]>>
    /\ pc[p] # "done"
    /\ op = IF pc[p] = "idle" THEN loc'[p].op ELSE loc[p].op

\* C19: in every step of the five handlers each committed group row is kept
\* as it is and no other row takes its id, every membership row is kept, so
\* a user who is a member stays one, and a step of GetBalances, GetGroup or
\* GetUserGroups leaves every table as it was (a step that changes a table
\* is no step of theirs).
C19_Monotonic ==
    [][\/ db' = db
       \/ /\ groups \subseteq groups'
          /\ \A r \in groups' : r \notin groups => r.id \notin {t.id : t \in groups}
          /\ \A k \in DOMAIN group_members : group_members'[k] >= group_members[k]
          /\ \A g \in GroupIds, u \in Users : IsGroupMember(g, u) => IsGroupMember(g, u)'
          /\ \A p \in Procs, op \in ReadOps : ~StepOf(p, op)
      ]_vars

\* A group with its creator and two members added one after the other, read
\* by a GetBalances call that answered 200.
C19_Witness ==
    \E p \in Observed, r \in groups :
        /\ Answered(p)
        /\ loc[p].groupID = r.id
        /\ SelectMembers(r.id) = Users
        /\ {b.user_id : b \in loc[p].balances} = Users

====
